---- MODULE Spec2Model ----
(***************************************************************************)
(* Model of dxltieclient/callbacks.py: ReputationChangeCallback.on_event   *)
(* decodes the payload of a DXL event, applies the field transforms and    *)
(* delegates to on_reputation_change.                                      *)
(*                                                                         *)
(* JSON values are tagged records [t, v]: "obj" (v a function from key to  *)
(* value), "str" (v a sequence of one-character strings), "num", "list"    *)
(* (v a sequence of values) and "null".                                    *)
(***************************************************************************)
EXTENDS Integers, Sequences, FiniteSets, TLC

VARIABLES overridden, pc, entry, event, rep_change_dict, err, calls

vars == <<overridden, pc, entry, event, rep_change_dict, err, calls>>

(***************************************************************************)
(* Bounds                                                                  *)
(***************************************************************************)
\* number of on_event invocations that may be in progress at the same time
NumThreads == 2

(***************************************************************************)
(* JSON values as json.loads builds them                                   *)
(***************************************************************************)
Obj(f) == [t |-> "obj", v |-> f]

Str(s) == [t |-> "str", v |-> s]

Num(n) == [t |-> "num", v |-> n]

Lst(s) == [t |-> "list", v |-> s]

Null == [t |-> "null", v |-> 0]

\* outcome of an expression: a value, or the exception it raised
Ok(x) == [ok |-> TRUE, val |-> x, err |-> "none"]

Raise(e) == [ok |-> FALSE, val |-> Null, err |-> e]

(***************************************************************************)
(* Property names (dxltieclient.constants)                                 *)
(***************************************************************************)
HASHES == "hashes"

NEW_REPUTATIONS == "newReputations"

OLD_REPUTATIONS == "oldReputations"

RELATIONSHIPS == "relationships"

PUBLIC_KEY_SHA1 == "publicKeySha1"

\* the characters of the string literals that appear on the left of "in"
KeyChars(k) ==
    CASE k = "hashes" -> <<"h","a","s","h","e","s">>
      [] k = "newReputations" -> <<"n","e","w","R","e","p","u","t","a","t","i","o","n","s">>
      [] k = "oldReputations" -> <<"o","l","d","R","e","p","u","t","a","t","i","o","n","s">>
      [] k = "reputations" -> <<"r","e","p","u","t","a","t","i","o","n","s">>
      [] k = "relationships" -> <<"r","e","l","a","t","i","o","n","s","h","i","p","s">>
      [] k = "certificate" -> <<"c","e","r","t","i","f","i","c","a","t","e">>
      [] k = "publicKeySha1" -> <<"p","u","b","l","i","c","K","e","y","S","h","a","1">>

(***************************************************************************)
(* Python's "k in x" and "x[k]" for a string literal k                     *)
(***************************************************************************)
IsSubstring(s, w) ==
    \E i \in 0..(Len(w) - Len(s)) : \A j \in 1..Len(s) : w[i + j] = s[j]

\* "T" / "F", or "E" when x is not a container (TypeError)
PyIn(k, x) ==
    CASE x.t = "obj" -> IF k \in DOMAIN x.v THEN "T" ELSE "F"
      [] x.t = "str" -> IF IsSubstring(KeyChars(k), x.v) THEN "T" ELSE "F"
      [] x.t = "list" -> IF \E i \in 1..Len(x.v) : x.v[i] = Str(KeyChars(k)) THEN "T" ELSE "F"
      [] OTHER -> "E"

\* x[k]: only a dict can be indexed by a string, and only by a key it has
PyGet(x, k) ==
    IF x.t # "obj" THEN Raise("TypeError")
    ELSE IF k \notin DOMAIN x.v THEN Raise("KeyError")
    ELSE Ok(x.v[k])

\* x[k] = y on a dict (callers have read x[k] before, so x is a dict)
PySet(x, k, y) ==
    Obj([j \in (DOMAIN x.v) \cup {k} |-> IF j = k THEN y ELSE x.v[j]])

(***************************************************************************)
(* TieClient helpers (dxltieclient.client), as the specification describes *)
(* them.  Each yields Ok(value) or raises a transform error.               *)
(***************************************************************************)
B64Alphabet ==
    <<"A","B","C","D","E","F","G","H","I","J","K","L","M","N","O","P",
      "Q","R","S","T","U","V","W","X","Y","Z","a","b","c","d","e","f",
      "g","h","i","j","k","l","m","n","o","p","q","r","s","t","u","v",
      "w","x","y","z","0","1","2","3","4","5","6","7","8","9","+","/">>

HexDigits == <<"0","1","2","3","4","5","6","7","8","9","a","b","c","d","e","f">>

UpperHexDigits == <<"0","1","2","3","4","5","6","7","8","9","A","B","C","D","E","F">>

IsB64Char(c) == \E i \in 1..64 : B64Alphabet[i] = c

B64Val(c) == (CHOOSE i \in 1..64 : B64Alphabet[i] = c) - 1

\* number of "=" characters that end the text (0, 1 or 2 in valid base64)
B64Padding(s) ==
    IF Len(s) >= 2 /\ s[Len(s)] = "=" /\ s[Len(s) - 1] = "=" THEN 2
    ELSE IF Len(s) >= 1 /\ s[Len(s)] = "=" THEN 1
    ELSE 0

\* standard base64 text: whole groups of four, alphabet characters only,
\* padding only at the very end
IsBase64(s) ==
    /\ Len(s) % 4 = 0
    /\ \A i \in 1..(Len(s) - B64Padding(s)) : IsB64Char(s[i])

\* the bytes of one group of four characters, pad = number of "=" in it
B64Group(g, pad) ==
    LET v1 == B64Val(g[1])
        v2 == B64Val(g[2])
        v3 == IF pad = 2 THEN 0 ELSE B64Val(g[3])
        v4 == IF pad >= 1 THEN 0 ELSE B64Val(g[4])
        n == v1 * 262144 + v2 * 4096 + v3 * 64 + v4
        b1 == n \div 65536
        b2 == (n \div 256) % 256
        b3 == n % 256
    IN  CASE pad = 0 -> <<b1, b2, b3>>
          [] pad = 1 -> <<b1, b2>>
          [] pad = 2 -> <<b1>>

RECURSIVE B64Decode(_)
B64Decode(s) ==
    IF Len(s) = 0 THEN <<>>
    ELSE IF Len(s) = 4 THEN B64Group(s, B64Padding(s))
    ELSE B64Group(SubSeq(s, 1, 4), 0) \o B64Decode(SubSeq(s, 5, Len(s)))

RECURSIVE HexEncode(_)
HexEncode(bytes) ==
    IF Len(bytes) = 0 THEN <<>>
    ELSE <<HexDigits[(bytes[1] \div 16) + 1], HexDigits[(bytes[1] % 16) + 1]>>
         \o HexEncode(Tail(bytes))

\* Base64-to-Hex Transform: decode standard base64, re-encode as lowercase hex
TieClient_base64_to_hex(x) ==
    IF x.t = "str" /\ IsBase64(x.v)
    THEN Ok(Str(HexEncode(B64Decode(x.v))))
    ELSE Raise("TransformError")

IsHexChar(c) == \E i \in 1..16 : HexDigits[i] = c \/ UpperHexDigits[i] = c

LowerHexChar(c) == HexDigits[CHOOSE i \in 1..16 : HexDigits[i] = c \/ UpperHexDigits[i] = c]

IsHexDigest(x) == x.t = "str" /\ \A i \in 1..Len(x.v) : IsHexChar(x.v[i])

\* Hash Transform: every (algorithm, digest) pair keeps its algorithm and has
\* its digest re-encoded to lowercase hexadecimal
TieClient_transform_hashes(x) ==
    IF x.t = "obj" /\ \A a \in DOMAIN x.v : IsHexDigest(x.v[a])
    THEN Ok(Obj([a \in DOMAIN x.v |->
                   Str([i \in 1..Len(x.v[a].v) |-> LowerHexChar(x.v[a].v[i])])]))
    ELSE Raise("TransformError")

\* the nested reputations mapping is used as it is
TieClient_transform_reputations(x) == Ok(x)

(***************************************************************************)
(* on_event, block by block (callbacks.py lines 65-102).  Each block maps  *)
(* rep_change_dict to Ok(the updated dict) or to the exception it raises.  *)
(***************************************************************************)
\* line 66: json.loads(event.payload.decode(encoding="UTF-8"))
DecodePayload(payload) ==
    IF ~payload.utf8 THEN Raise("UnicodeDecodeError")
    ELSE IF ~payload.json THEN Raise("ValueError")
    ELSE Ok(payload.doc)

\* d[k] = new where new was computed from got = d[k]; the exception of the
\* read or of the computation propagates
Assign(d, k, got, new) ==
    IF ~got.ok THEN Raise(got.err)
    ELSE IF ~new.ok THEN Raise(new.err)
    ELSE Ok(PySet(d, k, new.val))

\* lines 69-71
TransformHashes(d) ==
    CASE PyIn(HASHES, d) = "E" -> Raise("TypeError")
      [] PyIn(HASHES, d) = "F" -> Ok(d)
      [] PyIn(HASHES, d) = "T" -> Assign(d, HASHES, PyGet(d, HASHES),
                                         TieClient_transform_hashes(PyGet(d, HASHES).val))

\* d[k]["reputations"] passed through _transform_reputations
UnwrapReputations(x) ==
    LET got == PyGet(x, "reputations")
    IN  IF ~got.ok THEN Raise(got.err) ELSE TieClient_transform_reputations(got.val)

\* lines 74-78 (k = newReputations) and 81-85 (k = oldReputations)
TransformReputations(d, k) ==
    CASE PyIn(k, d) = "E" -> Raise("TypeError")
      [] PyIn(k, d) = "F" -> Ok(d)
      [] PyIn(k, d) = "T" ->
            LET got == PyGet(d, k)
            IN  IF ~got.ok THEN Raise(got.err)
                ELSE CASE PyIn("reputations", got.val) = "E" -> Raise("TypeError")
                       [] PyIn("reputations", got.val) = "F" -> Ok(d)
                       [] PyIn("reputations", got.val) = "T" ->
                             Assign(d, k, PyGet(d, k),
                                    UnwrapReputations(PyGet(d, k).val))

\* variant: the whole newReputations value is passed on, not the nested mapping
TransformNewReputationsNotUnwrapped(d) ==
    CASE PyIn(NEW_REPUTATIONS, d) = "E" -> Raise("TypeError")
      [] PyIn(NEW_REPUTATIONS, d) = "F" -> Ok(d)
      [] PyIn(NEW_REPUTATIONS, d) = "T" ->
            Assign(d, NEW_REPUTATIONS, PyGet(d, NEW_REPUTATIONS),
                   TieClient_transform_reputations(PyGet(d, NEW_REPUTATIONS).val))

TransformNewReputations(d) == TransformReputations(d, NEW_REPUTATIONS)

\* variant: the old reputations block assigns to the newReputations key
TransformOldReputationsIntoNew(d) ==
    CASE PyIn(OLD_REPUTATIONS, d) = "E" -> Raise("TypeError")
      [] PyIn(OLD_REPUTATIONS, d) = "F" -> Ok(d)
      [] PyIn(OLD_REPUTATIONS, d) = "T" ->
            LET got == PyGet(d, OLD_REPUTATIONS)
            IN  IF ~got.ok THEN Raise(got.err)
                ELSE CASE PyIn("reputations", got.val) = "E" -> Raise("TypeError")
                       [] PyIn("reputations", got.val) = "F" -> Ok(d)
                       [] PyIn("reputations", got.val) = "T" ->
                             LET new == UnwrapReputations(got.val)
                             IN  IF ~new.ok THEN Raise(new.err)
                                 ELSE Ok(PySet(d, NEW_REPUTATIONS, new.val))

\* variant: the old reputations block unwraps without testing for the nested key
TransformOldReputationsUnchecked(d) ==
    CASE PyIn(OLD_REPUTATIONS, d) = "E" -> Raise("TypeError")
      [] PyIn(OLD_REPUTATIONS, d) = "F" -> Ok(d)
      [] PyIn(OLD_REPUTATIONS, d) = "T" -> Assign(d, OLD_REPUTATIONS, PyGet(d, OLD_REPUTATIONS),
                                                  UnwrapReputations(PyGet(d, OLD_REPUTATIONS).val))

TransformOldReputations(d) == TransformReputations(d, OLD_REPUTATIONS)

\* lines 92-94
TransformCertHashes(cert_dict) ==
    CASE PyIn("hashes", cert_dict) = "E" -> Raise("TypeError")
      [] PyIn("hashes", cert_dict) = "F" -> Ok(cert_dict)
      [] PyIn("hashes", cert_dict) = "T" ->
            Assign(cert_dict, "hashes", PyGet(cert_dict, "hashes"),
                   TieClient_transform_hashes(PyGet(cert_dict, "hashes").val))

\* lines 95-97
TransformCertPublicKeySha1(cert_dict) ==
    CASE PyIn("publicKeySha1", cert_dict) = "E" -> Raise("TypeError")
      [] PyIn("publicKeySha1", cert_dict) = "F" -> Ok(cert_dict)
      [] PyIn("publicKeySha1", cert_dict) = "T" ->
            Assign(cert_dict, "publicKeySha1", PyGet(cert_dict, "publicKeySha1"),
                   TieClient_base64_to_hex(PyGet(cert_dict, "publicKeySha1").val))

\* variant: every string field of the certificate is taken for base64
TransformCertificateAllStrings(cert_dict) ==
    LET h == TransformCertHashes(cert_dict)
    IN  IF ~h.ok THEN h
        ELSE IF \E k \in DOMAIN h.val.v : h.val.v[k].t = "str" /\ ~IsBase64(h.val.v[k].v)
        THEN Raise("TransformError")
        ELSE Ok(Obj([k \in DOMAIN h.val.v |->
                        IF h.val.v[k].t = "str"
                        THEN TieClient_base64_to_hex(h.val.v[k]).val
                        ELSE h.val.v[k]]))

\* lines 91-97: cert_dict is updated in place, hashes first
TransformCertificate(cert_dict) ==
    LET h == TransformCertHashes(cert_dict)
    IN  IF ~h.ok THEN h ELSE TransformCertPublicKeySha1(h.val)

\* lines 89-97: relationships_dict["certificate"] is the dict updated in place
TransformRelationshipsDict(relationships_dict) ==
    CASE PyIn("certificate", relationships_dict) = "E" -> Raise("TypeError")
      [] PyIn("certificate", relationships_dict) = "F" -> Ok(relationships_dict)
      [] PyIn("certificate", relationships_dict) = "T" ->
            Assign(relationships_dict, "certificate", PyGet(relationships_dict, "certificate"),
                   TransformCertificate(PyGet(relationships_dict, "certificate").val))

\* lines 88-97
TransformRelationships(d) ==
    CASE PyIn(RELATIONSHIPS, d) = "E" -> Raise("TypeError")
      [] PyIn(RELATIONSHIPS, d) = "F" -> Ok(d)
      [] PyIn(RELATIONSHIPS, d) = "T" ->
            Assign(d, RELATIONSHIPS, PyGet(d, RELATIONSHIPS),
                   TransformRelationshipsDict(PyGet(d, RELATIONSHIPS).val))

\* variant: the top-level field is skipped when relationships is present
TransformPublicKeySha1UnlessRelationships(d) ==
    CASE PyIn(PUBLIC_KEY_SHA1, d) = "E" -> Raise("TypeError")
      [] PyIn(PUBLIC_KEY_SHA1, d) = "F" -> Ok(d)
      [] PyIn(PUBLIC_KEY_SHA1, d) = "T" ->
            IF PyIn(RELATIONSHIPS, d) = "T" THEN Ok(d)
            ELSE Assign(d, PUBLIC_KEY_SHA1, PyGet(d, PUBLIC_KEY_SHA1),
                        TieClient_base64_to_hex(PyGet(d, PUBLIC_KEY_SHA1).val))

\* lines 100-102
TransformPublicKeySha1(d) ==
    CASE PyIn(PUBLIC_KEY_SHA1, d) = "E" -> Raise("TypeError")
      [] PyIn(PUBLIC_KEY_SHA1, d) = "F" -> Ok(d)
      [] PyIn(PUBLIC_KEY_SHA1, d) = "T" ->
            Assign(d, PUBLIC_KEY_SHA1, PyGet(d, PUBLIC_KEY_SHA1),
                   TieClient_base64_to_hex(PyGet(d, PUBLIC_KEY_SHA1).val))

\* variant: the base method does nothing
on_reputation_change_pass(rep_change, original_event) == Ok(Null)

\* lines 107-249: the method of the base class
on_reputation_change(rep_change, original_event) == Raise("NotImplementedError")

\* the method a derived class supplies (docstring lines 34-39): returns None
derived_on_reputation_change(rep_change, original_event) == Ok(Null)

(***************************************************************************)
(* Events the fabric may deliver: payload bytes are modelled by whether    *)
(* they are valid UTF-8, whether the text is valid JSON, and the document  *)
(* json.loads builds from it.                                              *)
(***************************************************************************)
Absent == [t |-> "absent", v |-> 0]

S_AAEC == <<"A","A","E","C">>

S_ffef == <<"/","+","8","=">>

S_bad64 == <<"A","A","!","C">>

S_reputations == KeyChars("reputations")

RepEntry(provider, trust) ==
    Obj([attributes |-> Obj("2120340" :> Str(<<"2","1">>)),
         createDate |-> Num(1480455704),
         providerId |-> Num(provider),
         trustLevel |-> Num(trust)])

RepsA == Obj("1" :> RepEntry(1, 99) @@ "3" :> RepEntry(3, 99))

RepsB == Obj("1" :> RepEntry(1, 99) @@ "3" :> RepEntry(3, 85))

HashesUpper == Obj([md5 |-> Str(<<"A","B","0","f">>), sha1 |-> Str(<<"7","e">>)])

HashesLower == Obj([md5 |-> Str(<<"f","2","c","7">>)])

CertFull ==
    Obj([hashes |-> Obj([sha1 |-> Str(<<"C","0","d","e">>)]),
         publicKeySha1 |-> Str(S_AAEC),
         issuer |-> Str(<<"A","A","E","C">>)])

RelOther == Str(<<"A","B","0","f">>)

HashesOptions == {Absent, HashesUpper, HashesLower, Num(7)}

NewReputationsOptions ==
    {Absent, Obj([reputations |-> RepsA]), RepsA,
     Obj([reputations |-> Obj([reputations |-> RepsA])]),
     Num(5), Null, Str(S_reputations), Str(<<"a","b">>), Lst(<<>>)}

OldReputationsOptions == {Absent, Obj([reputations |-> RepsB]), Num(5)}

RelationshipsOptions ==
    {Absent,
     Obj([certificate |-> CertFull, parent |-> RelOther]),
     Obj([certificate |-> Obj([issuer |-> Str(S_AAEC)])]),
     Obj([certificate |-> Obj([publicKeySha1 |-> Str(S_bad64)])]),
     Obj([parent |-> RelOther]),
     Obj([certificate |-> Num(1)]),
     Num(3)}

PublicKeySha1Options == {Absent, Str(S_AAEC), Str(S_ffef), Str(S_bad64), Num(7)}

UpdateTimeOptions == {Absent, Num(1481219581)}

\* the JSON object with the chosen fields, absent ones left out
DocOf(c) ==
    Obj([k \in {j \in DOMAIN c : c[j] # Absent} |-> c[k]])

Docs ==
    {DocOf(c) : c \in [hashes : HashesOptions,
                       newReputations : NewReputationsOptions,
                       oldReputations : OldReputationsOptions,
                       relationships : RelationshipsOptions,
                       publicKeySha1 : PublicKeySha1Options,
                       updateTime : UpdateTimeOptions]}
    \cup {Num(5), Lst(<<>>), Str(KeyChars("hashes"))}

GoodPayload(doc) == [utf8 |-> TRUE, json |-> TRUE, doc |-> doc]

BadUtf8 == [utf8 |-> FALSE, json |-> FALSE, doc |-> Null]

BadJson == [utf8 |-> TRUE, json |-> FALSE, doc |-> Null]

Payloads == {GoodPayload(d) : d \in Docs} \cup {BadUtf8, BadJson}

\* dxlclient.message.Event: the message id and the payload
Events == {[id |-> 1, payload |-> p] : p \in Payloads}

\* a small pool with distinct message ids for interleaved invocations
ConcEvents ==
    {[id |-> 1, payload |-> GoodPayload(Obj([newReputations |-> Obj([reputations |-> RepsA]),
                                               updateTime |-> Num(1481219581)]))],
     [id |-> 2, payload |-> GoodPayload(Obj([hashes |-> HashesUpper,
                                               publicKeySha1 |-> Str(S_AAEC)]))],
     [id |-> 3, payload |-> GoodPayload(Obj([hashes |-> HashesUpper,
                                               publicKeySha1 |-> Str(S_AAEC)]))],
     [id |-> 4, payload |-> GoodPayload(Obj([relationships |->
                                                 Obj([certificate |-> CertFull])]))],
     [id |-> 5, payload |-> GoodPayload(Obj([publicKeySha1 |-> Str(S_bad64)]))]}

NoEvent == [id |-> 0, payload |-> BadUtf8]

(***************************************************************************)
(* State: one entry per invocation in progress (thread of the dispatcher). *)
(*   overridden       the callback instance derives on_reputation_change   *)
(*   pc               the line the invocation is at                        *)
(*   entry            "on_event", or "direct" for a direct call of         *)
(*                    on_reputation_change                                 *)
(*   event            the event argument                                   *)
(*   rep_change_dict  the local of on_event                                *)
(*   err              the exception that ended the invocation, or "none"   *)
(*   calls            the calls of on_reputation_change it made            *)
(***************************************************************************)
Threads == DOMAIN pc

Ended(t) == pc[t] = "returned" \/ err[t] # "none"

InitThreads(n) ==
    /\ overridden \in BOOLEAN
    /\ pc = [t \in 1..n |-> "idle"]
    /\ entry = [t \in 1..n |-> "on_event"]
    /\ event = [t \in 1..n |-> NoEvent]
    /\ rep_change_dict = [t \in 1..n |-> Null]
    /\ err = [t \in 1..n |-> "none"]
    /\ calls = [t \in 1..n |-> <<>>]

Init == InitThreads(1)

InitConc == InitThreads(NumThreads)

\* line 56: the dispatcher calls on_event(event)
on_event(t, deliverable) ==
    /\ pc[t] = "idle"
    /\ \E e \in deliverable : event' = [event EXCEPT ![t] = e]
    /\ pc' = [pc EXCEPT ![t] = "decode"]
    /\ entry' = [entry EXCEPT ![t] = "on_event"]
    /\ rep_change_dict' = [rep_change_dict EXCEPT ![t] = Null]
    /\ err' = [err EXCEPT ![t] = "none"]
    /\ calls' = [calls EXCEPT ![t] = <<>>]
    /\ UNCHANGED overridden

\* variant: an exception is swallowed and the invocation carries on
AdvanceSwallowing(t, next, res) ==
    /\ err[t] = "none"
    /\ pc' = [pc EXCEPT ![t] = next]
    /\ rep_change_dict' = [rep_change_dict EXCEPT ![t] = IF res.ok THEN res.val ELSE @]
    /\ UNCHANGED <<overridden, entry, event, calls, err>>

\* variant: the record is kept in an attribute of the callback instance,
\* one for all invocations
AdvanceSharedRecord(t, next, res) ==
    /\ err[t] = "none"
    /\ IF res.ok
       THEN /\ rep_change_dict' = [u \in Threads |-> res.val]
            /\ pc' = [pc EXCEPT ![t] = next]
            /\ UNCHANGED err
       ELSE /\ err' = [err EXCEPT ![t] = res.err]
            /\ UNCHANGED <<pc, rep_change_dict>>
    /\ UNCHANGED <<overridden, entry, event, calls>>

\* a statement of on_event: its result is bound to the local rep_change_dict
\* and control moves on, or its exception ends the invocation
Advance(t, next, res) ==
    /\ err[t] = "none"
    /\ IF res.ok
       THEN /\ rep_change_dict' = [rep_change_dict EXCEPT ![t] = res.val]
            /\ pc' = [pc EXCEPT ![t] = next]
            /\ UNCHANGED err
       ELSE /\ err' = [err EXCEPT ![t] = res.err]
            /\ UNCHANGED <<pc, rep_change_dict>>
    /\ UNCHANGED <<overridden, entry, event, calls>>

\* line 66
Decode(t) ==
    /\ pc[t] = "decode"
    /\ Advance(t, "hashes", DecodePayload(event[t].payload))

\* lines 69-71
Hashes(t) ==
    /\ pc[t] = "hashes"
    /\ Advance(t, "newReputations", TransformHashes(rep_change_dict[t]))

\* lines 74-78
NewReputations(t) ==
    /\ pc[t] = "newReputations"
    /\ Advance(t, "oldReputations", TransformNewReputations(rep_change_dict[t]))

\* lines 81-85
OldReputations(t) ==
    /\ pc[t] = "oldReputations"
    /\ Advance(t, "relationships", TransformOldReputations(rep_change_dict[t]))

\* lines 88-97
Relationships(t) ==
    /\ pc[t] = "relationships"
    /\ Advance(t, "publicKeySha1", TransformRelationships(rep_change_dict[t]))

\* lines 100-102
PublicKeySha1(t) ==
    /\ pc[t] = "publicKeySha1"
    /\ Advance(t, "invoke", TransformPublicKeySha1(rep_change_dict[t]))

\* variant: the handler is handed the record as decoded
HandlerArgsAsDecoded(t) ==
    [rep_change_dict |-> event[t].payload.doc, original_event |-> event[t]]

\* the arguments of the call at line 105
HandlerArgs(t) == [rep_change_dict |-> rep_change_dict[t], original_event |-> event[t]]

\* line 105 (or a direct call): self.on_reputation_change(rep_change_dict, event)
Invoke(t) ==
    /\ pc[t] = "invoke"
    /\ err[t] = "none"
    /\ LET args == HandlerArgs(t)
           res == IF overridden
                  THEN derived_on_reputation_change(args.rep_change_dict, args.original_event)
                  ELSE on_reputation_change(args.rep_change_dict, args.original_event)
       IN  /\ calls' = [calls EXCEPT ![t] = Append(@, args)]
           /\ IF res.ok
              THEN pc' = [pc EXCEPT ![t] = "returned"] /\ UNCHANGED err
              ELSE err' = [err EXCEPT ![t] = res.err] /\ UNCHANGED pc
    /\ UNCHANGED <<overridden, entry, event, rep_change_dict>>

\* on_reputation_change called directly, with some record and event
DirectCall(t, deliverable) ==
    /\ pc[t] = "idle"
    /\ \E e \in deliverable :
          /\ event' = [event EXCEPT ![t] = e]
          /\ rep_change_dict' = [rep_change_dict EXCEPT ![t] = e.payload.doc]
    /\ pc' = [pc EXCEPT ![t] = "invoke"]
    /\ entry' = [entry EXCEPT ![t] = "direct"]
    /\ err' = [err EXCEPT ![t] = "none"]
    /\ calls' = [calls EXCEPT ![t] = <<>>]
    /\ UNCHANGED overridden

\* the invocation is over (returned or raised): its frame is discarded and
\* the dispatcher thread is free for the next event
Return(t) ==
    /\ Ended(t)
    /\ pc' = [pc EXCEPT ![t] = "idle"]
    /\ entry' = [entry EXCEPT ![t] = "on_event"]
    /\ event' = [event EXCEPT ![t] = NoEvent]
    /\ rep_change_dict' = [rep_change_dict EXCEPT ![t] = Null]
    /\ err' = [err EXCEPT ![t] = "none"]
    /\ calls' = [calls EXCEPT ![t] = <<>>]
    /\ UNCHANGED overridden

Next ==
    \/ \E t \in Threads : on_event(t, Events)
    \/ \E t \in Threads : Decode(t)
    \/ \E t \in Threads : Hashes(t)
    \/ \E t \in Threads : NewReputations(t)
    \/ \E t \in Threads : OldReputations(t)
    \/ \E t \in Threads : Relationships(t)
    \/ \E t \in Threads : PublicKeySha1(t)
    \/ \E t \in Threads : Invoke(t)
    \/ \E t \in Threads : DirectCall(t, Events)
    \/ \E t \in Threads : Return(t)

NextConc ==
    \/ \E t \in Threads : on_event(t, ConcEvents)
    \/ \E t \in Threads : Decode(t)
    \/ \E t \in Threads : Hashes(t)
    \/ \E t \in Threads : NewReputations(t)
    \/ \E t \in Threads : OldReputations(t)
    \/ \E t \in Threads : Relationships(t)
    \/ \E t \in Threads : PublicKeySha1(t)
    \/ \E t \in Threads : Invoke(t)
    \/ \E t \in Threads : DirectCall(t, ConcEvents)
    \/ \E t \in Threads : Return(t)

Spec == Init /\ [][Next]_vars

SpecConc == InitConc /\ [][NextConc]_vars

\* lines 68-102 run in sequence on a decoded record, as one invocation on its
\* own runs them
Normalize(d) ==
    LET r1 == TransformHashes(d)
        r2 == IF r1.ok THEN TransformNewReputations(r1.val) ELSE r1
        r3 == IF r2.ok THEN TransformOldReputations(r2.val) ELSE r2
        r4 == IF r3.ok THEN TransformRelationships(r3.val) ELSE r3
    IN  IF r4.ok THEN TransformPublicKeySha1(r4.val) ELSE r4

(***************************************************************************)
(* Properties                                                              *)
(***************************************************************************)
\* the record json.loads built for the invocation of thread t
Decoded(t) == event[t].payload.doc

\* on_event of thread t has called the handler
Handled(t) == entry[t] = "on_event" /\ calls[t] # <<>>

\* the record the handler of thread t received
Received(t) == calls[t][1].rep_change_dict

Has(x, k) == x.t = "obj" /\ k \in DOMAIN x.v

IsWrapped(x) == Has(x, "reputations")

ValidBase64(x) == x.t = "str" /\ IsBase64(x.v)

\* what each field is expected to become, stated field by field
ExpectedHashes(x) == TieClient_transform_hashes(x).val

ExpectedReputations(x) == IF IsWrapped(x) THEN x.v["reputations"] ELSE x

ExpectedHex(x) == Str(HexEncode(B64Decode(x.v)))

ExpectedCertificate(c) ==
    IF c.t # "obj" THEN c
    ELSE Obj([k \in DOMAIN c.v |->
                CASE k = "hashes" -> ExpectedHashes(c.v[k])
                  [] k = "publicKeySha1" -> ExpectedHex(c.v[k])
                  [] OTHER -> c.v[k]])

ExpectedRelationships(x) ==
    IF x.t # "obj" THEN x
    ELSE Obj([k \in DOMAIN x.v |->
                IF k = "certificate" THEN ExpectedCertificate(x.v[k]) ELSE x.v[k]])

FullyNormalized(d) ==
    IF d.t # "obj" THEN d
    ELSE Obj([k \in DOMAIN d.v |->
                CASE k = "hashes" -> ExpectedHashes(d.v[k])
                  [] k = "newReputations" -> ExpectedReputations(d.v[k])
                  [] k = "oldReputations" -> ExpectedReputations(d.v[k])
                  [] k = "relationships" -> ExpectedRelationships(d.v[k])
                  [] k = "publicKeySha1" -> ExpectedHex(d.v[k])
                  [] OTHER -> d.v[k]])

RecognizedKeys == {"hashes", "newReputations", "oldReputations", "relationships", "publicKeySha1"}

\* C1: an invocation of on_event calls the handler at most once, exactly once
\* when it returns, never before the last transform block, and with the fully
\* normalized record and the event on_event received.
C1_HandlerGetsNormalizedRecordOnce ==
    \A t \in Threads :
        entry[t] = "on_event" =>
            /\ Len(calls[t]) <= 1
            /\ pc[t] = "returned" => Len(calls[t]) = 1
            /\ calls[t] # <<>> =>
                  /\ pc[t] \in {"invoke", "returned"}
                  /\ calls[t][1].original_event = event[t]
                  /\ Received(t) = FullyNormalized(Decoded(t))

C1_Witness ==
    \E t \in Threads :
        /\ Handled(t) /\ pc[t] = "returned"
        /\ Has(Decoded(t), "hashes") /\ Has(Decoded(t), "publicKeySha1")
        /\ Has(Decoded(t), "relationships") /\ Has(Decoded(t).v["relationships"], "certificate")
        /\ Has(Decoded(t), "newReputations") /\ IsWrapped(Decoded(t).v["newReputations"])
        /\ Has(Decoded(t), "oldReputations") /\ IsWrapped(Decoded(t).v["oldReputations"])
        /\ Received(t) # Decoded(t)

\* the payload cannot be decoded, or a publicKeySha1 field is not base64
MustFail(payload) ==
    \/ ~payload.utf8
    \/ ~payload.json
    \/ /\ Has(payload.doc, "publicKeySha1")
       /\ ~ValidBase64(payload.doc.v["publicKeySha1"])
    \/ /\ Has(payload.doc, "relationships")
       /\ Has(payload.doc.v["relationships"], "certificate")
       /\ Has(payload.doc.v["relationships"].v["certificate"], "publicKeySha1")
       /\ ~ValidBase64(payload.doc.v["relationships"].v["certificate"].v["publicKeySha1"])

\* C2: when the decoding or a transform fails, the invocation ends in that
\* error before line 105 and the handler is not called for the event.
C2_FailureNeverReachesHandler ==
    \A t \in Threads :
        entry[t] = "on_event" =>
            /\ (err[t] # "none" /\ pc[t] # "invoke") => calls[t] = <<>>
            /\ (pc[t] # "idle" /\ MustFail(event[t].payload)) =>
                  /\ calls[t] = <<>>
                  /\ pc[t] \notin {"invoke", "returned"}

C2_Witness ==
    \E t \in Threads :
        /\ entry[t] = "on_event"
        /\ pc[t] = "publicKeySha1"
        /\ err[t] = "TransformError"
        /\ Decoded(t).v["publicKeySha1"] = Str(S_bad64)
        /\ Has(Decoded(t), "hashes")
        /\ rep_change_dict[t] # Decoded(t)
        /\ calls[t] = <<>>

\* C3: the record the handler receives has the top-level keys of the decoded
\* payload, the keys that are not recognized keep their value, and a payload
\* without recognized keys is passed on as it was decoded.
C3_TopLevelKeysPreserved ==
    \A t \in Threads :
        Handled(t) =>
            IF Decoded(t).t = "obj"
            THEN /\ Received(t).t = "obj"
                 /\ DOMAIN Received(t).v = DOMAIN Decoded(t).v
                 /\ \A k \in (DOMAIN Decoded(t).v) \ RecognizedKeys :
                        Received(t).v[k] = Decoded(t).v[k]
                 /\ (DOMAIN Decoded(t).v) \cap RecognizedKeys = {} =>
                        Received(t) = Decoded(t)
            ELSE Received(t) = Decoded(t)

C3_Witness ==
    \E t \in Threads :
        /\ Handled(t)
        /\ Has(Decoded(t), "updateTime") /\ Has(Decoded(t), "hashes")
        /\ Has(Decoded(t), "oldReputations") /\ ~Has(Decoded(t), "newReputations")
        /\ Received(t) # Decoded(t)
        /\ Received(t).v["updateTime"] = Num(1481219581)

\* C4: a newReputations / oldReputations object with a nested reputations key
\* reaches the handler as exactly the nested mapping, each field on its own.
C4_ReputationsUnwrapped ==
    \A t \in Threads :
        Handled(t) =>
            \A k \in {"newReputations", "oldReputations"} :
                (Has(Decoded(t), k) /\ IsWrapped(Decoded(t).v[k])) =>
                    Received(t).v[k] = Decoded(t).v[k].v["reputations"]

C4_Witness ==
    \E t \in Threads :
        /\ Handled(t)
        /\ Decoded(t).v = [newReputations |-> Obj([reputations |-> RepsA]),
                           oldReputations |-> Obj([reputations |-> RepsB])]
        /\ Received(t).v = [newReputations |-> RepsA, oldReputations |-> RepsB]

\* C5: a newReputations / oldReputations value that is not an object with a
\* reputations key (an object without it, or no object at all) raises no
\* error in its block and reaches the handler unchanged.
C5_OtherReputationsValuesTolerated ==
    \A t \in Threads :
        entry[t] = "on_event" =>
            \A k \in {"newReputations", "oldReputations"} :
                (Has(Decoded(t), k) /\ ~IsWrapped(Decoded(t).v[k])) =>
                    /\ ~(pc[t] = k /\ err[t] # "none")
                    /\ Handled(t) => Received(t).v[k] = Decoded(t).v[k]

\* C6: a top-level publicKeySha1 that is standard base64 for bytes X reaches
\* the handler as the lowercase hex of X (AAEC becomes 000102), with or
\* without a relationships.certificate.publicKeySha1 next to it.
C6_PublicKeySha1IsHex ==
    \A t \in Threads :
        (Handled(t) /\ Has(Decoded(t), "publicKeySha1")
                    /\ ValidBase64(Decoded(t).v["publicKeySha1"])) =>
            /\ Received(t).v["publicKeySha1"] = ExpectedHex(Decoded(t).v["publicKeySha1"])
            /\ Decoded(t).v["publicKeySha1"] = Str(S_AAEC) =>
                  Received(t).v["publicKeySha1"] = Str(<<"0","0","0","1","0","2">>)
            /\ Decoded(t).v["publicKeySha1"] = Str(S_ffef) =>
                  Received(t).v["publicKeySha1"] = Str(<<"f","f","e","f">>)

C6_Witness ==
    \E t \in Threads :
        /\ Handled(t)
        /\ Has(Decoded(t), "publicKeySha1")
        /\ Decoded(t).v["publicKeySha1"] = Str(S_AAEC)
        /\ Has(Decoded(t), "relationships")
        /\ Decoded(t).v["relationships"] = Obj([certificate |-> CertFull, parent |-> RelOther])
        /\ Received(t).v["publicKeySha1"] = Str(<<"0","0","0","1","0","2">>)

\* C7: inside relationships only certificate.hashes and
\* certificate.publicKeySha1 are replaced; the other fields of the certificate
\* and the other entries of relationships reach the handler unchanged, and a
\* relationships object without certificate passes unchanged and without
\* error.
C7_OnlyCertificateFieldsReplaced ==
    \A t \in Threads :
        (entry[t] = "on_event" /\ Has(Decoded(t), "relationships")
                               /\ Decoded(t).v["relationships"].t = "obj") =>
            LET rel == Decoded(t).v["relationships"]
            IN  IF Has(rel, "certificate")
                THEN (Handled(t) /\ rel.v["certificate"].t = "obj") =>
                        LET cert == rel.v["certificate"]
                            out == Received(t).v["relationships"]
                        IN  /\ DOMAIN out.v = DOMAIN rel.v
                            /\ \A k \in (DOMAIN rel.v) \ {"certificate"} : out.v[k] = rel.v[k]
                            /\ DOMAIN out.v["certificate"].v = DOMAIN cert.v
                            /\ \A k \in (DOMAIN cert.v) \ {"hashes", "publicKeySha1"} :
                                   out.v["certificate"].v[k] = cert.v[k]
                            /\ Has(cert, "hashes") =>
                                   out.v["certificate"].v["hashes"] = ExpectedHashes(cert.v["hashes"])
                            /\ Has(cert, "publicKeySha1") =>
                                   out.v["certificate"].v["publicKeySha1"]
                                       = ExpectedHex(cert.v["publicKeySha1"])
                ELSE /\ ~(pc[t] = "relationships" /\ err[t] # "none")
                     /\ Handled(t) => Received(t).v["relationships"] = rel

C7_Witness ==
    \E t \in Threads :
        /\ Handled(t)
        /\ Has(Decoded(t), "relationships")
        /\ Decoded(t).v["relationships"] = Obj([certificate |-> CertFull, parent |-> RelOther])
        /\ Received(t).v["relationships"] =
              Obj([certificate |->
                       Obj([hashes |-> Obj([sha1 |-> Str(<<"c","0","d","e">>)]),
                            publicKeySha1 |-> Str(<<"0","0","0","1","0","2">>),
                            issuer |-> Str(S_AAEC)]),
                   parent |-> RelOther])

\* what one invocation on its own hands to the handler for an event
Solitary(e) == Normalize(DecodePayload(e.payload).val)

\* a thread that takes no step keeps its event, its record and its calls
C8_Frame ==
    \A t \in Threads :
        (pc'[t] = pc[t] /\ err'[t] = err[t] /\ calls'[t] = calls[t]) =>
            /\ rep_change_dict'[t] = rep_change_dict[t]
            /\ event'[t] = event[t]

C8_Inv ==
    \A t \in Threads :
        Handled(t) =>
            /\ Solitary(event[t]).ok
            /\ Received(t) = Solitary(event[t]).val
            /\ calls[t][1].original_event = event[t]

\* C8: with invocations of on_event interleaved on one callback instance,
\* each handler call receives the record a solitary invocation on the same
\* event produces, and no step of one invocation changes the record of
\* another.
C8_ConcurrentInvocationsIndependent == []C8_Inv /\ [][C8_Frame]_vars

C8_Witness ==
    \E t, u \in Threads :
        /\ t # u
        /\ Handled(t) /\ Received(t) # Decoded(t)
        /\ entry[u] = "on_event"
        /\ pc[u] \in {"newReputations", "oldReputations", "relationships", "publicKeySha1"}
        /\ err[u] = "none"
        /\ rep_change_dict[u] # rep_change_dict[t]
        /\ event[u] # event[t]

\* C9: on a callback that does not override on_reputation_change, every call
\* of it, direct or from on_event after the transforms, ends in
\* NotImplementedError and never returns.
C9_BaseHandlerRaisesNotImplemented ==
    ~overridden =>
        \A t \in Threads :
            /\ pc[t] # "returned"
            /\ calls[t] # <<>> => (pc[t] = "invoke" /\ err[t] = "NotImplementedError")

C9_Witness ==
    \E t \in Threads :
        /\ ~overridden
        /\ Handled(t)
        /\ Received(t) # Decoded(t)
        /\ err[t] = "NotImplementedError"

NoBase64FieldNorNestedReputations(r) ==
    /\ ~Has(r, "publicKeySha1")
    /\ ~(/\ Has(r, "relationships")
         /\ Has(r.v["relationships"], "certificate")
         /\ Has(r.v["relationships"].v["certificate"], "publicKeySha1"))
    /\ \A k \in {"newReputations", "oldReputations"} :
           Has(r, k) => PyIn("reputations", r.v[k]) = "F"

====
